---- MODULE Spec2Model ----
(***************************************************************************)
(* Model of src/bot.py: a Telegram ConversationHandler that collects the   *)
(* fields Name, Timestamp and Contact_Info of a person in                  *)
(* context.user_data and appends one row to a spreadsheet.                 *)
(*                                                                         *)
(* Strings are sequences of words: "" is <<>>, and `x in text` (Python's   *)
(* substring test) is the occurrence of the word x in the sequence.        *)
(* A Python dict is a function whose DOMAIN is the set of its keys.        *)
(***************************************************************************)
EXTENDS Integers, Sequences, FiniteSets, TLC

(* ---------------------------------------------------------------- bounds *)

\* int(datetime.datetime.now().timestamp()) ranges over 0..MaxClock.
MaxClock == 1

\* Conversations started in all, over all keys.
MaxConv == 2

(* ------------------------------------------------------------ vocabulary *)

\* Conversation keys of the ConversationHandler (per_chat and per_user are
\* its defaults): <<chat id, user id>>.  One user writes in two chats.
Sessions == {<<1, 1>>, <<2, 1>>}

ChatOf(s) == s[1]

UserOf(s) == s[2]

Users == {UserOf(s) : s \in Sessions}

\* The three fields both handlers scan, in the order they scan them.
RequiredFields == <<"Name", "Timestamp", "Contact_Info">>

Required == {RequiredFields[i] : i \in 1..Len(RequiredFields)}

\* Text messages a user sends (filters.TEXT & ~filters.COMMAND: not empty).
Texts ==
  { <<"Bob">>,
    <<"Name", "Timestamp">>,
    <<"Contact_Info">> }

\* Values the extraction tool puts under a key of its input.
ExtractVals == { <<>>, <<"Alice">> }

ExtractKeys == {"name", "context", "timestamp", "contact_info"}

\* The key sets of the tool inputs tried: no property, the three fields
\* without the context, and all four.
InputKeySets == { {}, {"name", "timestamp", "contact_info"}, ExtractKeys }

\* tool_block.input: a dict over some of the tool's properties.
ToolInputs == UNION { [K -> ExtractVals] : K \in InputKeySets }

\* What client.messages.create does: raise, return something that is not a
\* non-empty list, return a block without `input`, or a tool-use block.
Responses ==
  { [kind |-> "raise"], [kind |-> "invalid"], [kind |-> "no_input"] }
    \cup { [kind |-> "tool", input |-> i] : i \in ToolInputs }

EmptyDict == [k \in {} |-> <<>>]

(* ---------------------------------------------------------- dict helpers *)

\* d[k] = v
SetItem(d, k, v) == [x \in (DOMAIN d) \cup {k} |-> IF x = k THEN v ELSE d[x]]

\* d.get(k, default)
Get(d, k, default) == IF k \in DOMAIN d THEN d[k] ELSE default

\* not d.get(k): the key is absent (None) or its value is the empty string
Falsy(d, k) == k \notin DOMAIN d \/ d[k] = <<>>

\* x in text
In(x, text) == \E i \in 1..Len(text) : text[i] = x

\* sep.join(parts)
RECURSIVE Join(_, _)
Join(parts, sep) ==
  IF Len(parts) = 0 THEN <<>>
  ELSE IF Len(parts) = 1 THEN <<parts[1]>>
  ELSE <<parts[1], sep>> \o Join(Tail(parts), sep)

(* ------------------------------------------------------- outbound texts *)

Greeting == <<"Hi! Please tell me about the person you met.">>

Saved == <<"Thank you! Your information has been saved.">>

SaveError == <<"There was an error saving your information.">>

Cancelled == <<"Conversation cancelled.">>

(* ------------------------------------------------------------------ state *)

VARIABLES
  clock,      \* int(datetime.datetime.now().timestamp())
  conv,       \* the ConversationHandler's state of each (chat, user) key
  user_data,  \* context.user_data: one dict per user, the same in every chat
  sheet,      \* the worksheet: the number of rows appended to it
  turn,       \* what the last handler run did: its replies, its extractor
              \* calls and the rows it passed to sheet.append_row
  epoch,      \* history: how many conversations each key has started
  writer,     \* history: per user and user_data key, the conversation
              \* <<key, epoch>> whose handler assigned the current value
  cancelled   \* history: the conversations that cancel has ended

vars == <<clock, conv, user_data, sheet, turn, epoch, writer, cancelled>>

\* Conversations started so far.
RECURSIVE Total(_, _)
Total(f, S) ==
  IF S = {} THEN 0
  ELSE LET x == CHOOSE y \in S : TRUE IN f[x] + Total(f, S \ {x})

\* The conversation a key is in (or was last in).
Conversation(s) == <<s, epoch[s]>>

\* writer[u] after a handler of conversation c has assigned `keys`.
Wrote(w, keys, c) == [k \in (DOMAIN w) \cup keys |-> IF k \in keys THEN c ELSE w[k]]

NoTurn ==
  [ key |-> <<0, 0>>, handler |-> "none", text |-> <<>>,
    extract_calls |-> <<>>, replies |-> <<>>, rows |-> <<>>, saved |-> FALSE ]

Init ==
  /\ clock = 0
  /\ conv = [s \in Sessions |-> "END"]
  /\ user_data = [u \in Users |-> EmptyDict]
  /\ sheet = 0
  /\ turn = NoTurn
  /\ epoch = [s \in Sessions |-> 0]
  /\ writer = [u \in Users |-> EmptyDict]
  /\ cancelled = {}

(* --------------------------------------------------- the handlers' steps *)

\* start: the session id, chat id and the time in seconds.
SessionId(chat, now) == <<chat, now>>

\* Mutant: a failed call yields the tool's placeholder 'None' for every
\* property instead of {}.
extract_fields_none_on_failure(response) ==
  IF response.kind = "tool" THEN response.input
  ELSE [k \in ExtractKeys |-> <<"None">>]

\* extract_fields_from_context: the tool block's input, or {} when the call
\* raised or the response has no usable block.
extract_fields_from_context(response) ==
  IF response.kind = "tool" THEN response.input ELSE EmptyDict

\* The record of one call of extract_fields_from_context: its argument, what
\* client.messages.create did and the dict it returned.
ExtractCall(context_message, response) ==
  [ text |-> context_message, outcome |-> response.kind,
    result |-> extract_fields_from_context(response) ]

\* Mutant: the extracted name is not stored.
SaveExtracted_without_name(d, extracted_data, context_message) ==
  LET d1 == SetItem(d, "Context", Get(extracted_data, "context", context_message))
      d2 == SetItem(d1, "Name", <<>>)
      d3 == SetItem(d2, "Timestamp", Get(extracted_data, "timestamp", <<>>))
      d4 == SetItem(d3, "Contact_Info", Get(extracted_data, "contact_info", <<>>))
  IN  SetItem(d4, "Follow-Up Status", <<"Pending">>)

\* Mutant: a field the extractor did not return keeps the value the draft
\* already had.
SaveExtracted_keeps_old(d, extracted_data, context_message) ==
  LET d1 == SetItem(d, "Context", Get(extracted_data, "context", context_message))
      d2 == SetItem(d1, "Name",
                    Get(extracted_data, "name", Get(d, "Name", <<>>)))
      d3 == SetItem(d2, "Timestamp",
                    Get(extracted_data, "timestamp", Get(d, "Timestamp", <<>>)))
      d4 == SetItem(d3, "Contact_Info",
                    Get(extracted_data, "contact_info", Get(d, "Contact_Info", <<>>)))
  IN  SetItem(d4, "Follow-Up Status", <<"Pending">>)

\* context_state, "Save whatever data was extracted".
SaveExtracted(d, extracted_data, context_message) ==
  LET d1 == SetItem(d, "Context", Get(extracted_data, "context", context_message))
      d2 == SetItem(d1, "Name", Get(extracted_data, "name", <<>>))
      d3 == SetItem(d2, "Timestamp", Get(extracted_data, "timestamp", <<>>))
      d4 == SetItem(d3, "Contact_Info", Get(extracted_data, "contact_info", <<>>))
  IN  SetItem(d4, "Follow-Up Status", <<"Pending">>)

\* Mutant: the scan takes Context for a required field too.
missing_fields_with_context(d) ==
  SelectSeq(<<"Name", "Timestamp", "Contact_Info", "Context">>,
            LAMBDA key : Falsy(d, key))

\* Mutant: the scan forgets Contact_Info.
missing_fields_without_contact(d) ==
  SelectSeq(<<"Name", "Timestamp">>, LAMBDA key : Falsy(d, key))

\* The keys of RequiredFields whose value is falsy, in order.
missing_fields(d) == SelectSeq(RequiredFields, LAMBDA key : Falsy(d, key))

\* context_state's prompt for the missing fields.
ContextPrompt(missing) ==
  <<"I couldn't find the">> \o Join(missing, "and")
    \o <<"in your message. Could you please provide it?">>

\* Mutant: the reply is merged the way context_state merges, every required
\* field is assigned, the empty string when the reply does not name it.
FillMissing_reassign_all(d, fields, user_reply) ==
  [ k \in DOMAIN d |->
      IF k \in Required
        THEN (IF In(k, user_reply) THEN user_reply ELSE <<>>)
        ELSE d[k] ]

\* Mutant: the reply goes to the first missing field only, when it names it.
FillMissing_first_only(d, fields, user_reply) ==
  IF fields # <<>> /\ In(Head(fields), user_reply)
    THEN SetItem(d, Head(fields), user_reply) ELSE d

\* Mutant: the loop runs over every required field the reply names, filled
\* or not.
FillMissing_all_named(d, fields, user_reply) ==
  [ k \in DOMAIN d |->
      IF k \in Required /\ In(k, user_reply) THEN user_reply ELSE d[k] ]

\* missing_info_state's loop over the missing fields.
RECURSIVE FillMissing(_, _, _)
FillMissing(d, fields, user_reply) ==
  IF fields = <<>> THEN d
  ELSE FillMissing(
         IF In(Head(fields), user_reply)
           THEN SetItem(d, Head(fields), user_reply) ELSE d,
         Tail(fields), user_reply)

\* Mutant: the re-prompt has no text, so no message goes out.
NextPrompt_blank(still_missing) == <<>>

\* Mutant: the prompt asks for the last missing field.
NextPrompt_last(still_missing) ==
  <<"Please provide the", still_missing[Len(still_missing)]>>

\* missing_info_state's prompt, "Ask for next missing field".
NextPrompt(still_missing) == <<"Please provide the", still_missing[1]>>

\* The list context_state passes to sheet.append_row.
ContextRow(d) ==
  << d["ID"], d["Name"], d["Context"], d["Timestamp"], d["Contact_Info"],
     d["Follow-Up Status"] >>

\* The list missing_info_state passes to sheet.append_row.
MissingInfoRow(d) ==
  << d["ID"], d["Name"], d["Context"], d["Timestamp"], d["Contact_Info"],
     d["Follow-Up Status"] >>

\* Mutant: the confirmation is sent whether or not append_row raised.
SaveReply_always_thanks(append_ok) == Saved

\* The reply of the try/except around sheet.append_row.
SaveReply(append_ok) == IF append_ok THEN Saved ELSE SaveError

\* What start returns: the next state of the conversation.
start_returns == "CONTEXT"

\* What context_state returns: MISSING_INFO after its prompt,
\* ConversationHandler.END after the try/except around append_row.
context_state_returns(missing) ==
  IF missing # <<>> THEN "MISSING_INFO" ELSE "END"

\* Mutant: missing_info_state stays in MISSING_INFO after saving too.
missing_info_state_never_ends(still_missing) == "MISSING_INFO"

\* What missing_info_state returns: MISSING_INFO after its prompt,
\* ConversationHandler.END after the try/except around append_row.
missing_info_state_returns(still_missing) ==
  IF still_missing # <<>> THEN "MISSING_INFO" ELSE "END"

\* Mutant: cancel sends the conversation back to awaiting the context.
cancel_returns_context == "CONTEXT"

\* What cancel returns.
cancel_returns == "END"

\* sheet.append_row(row): one more row, unless the call raises.
append_row(rows, row, append_ok) == IF append_ok THEN rows + 1 ELSE rows

(* ---------------------------------------------------------------- actions *)

\* entry_points: a text message of a key with no conversation runs start,
\* which reads the time `now`; time does not run backwards.
start(s, text, now) ==
  /\ now >= clock
  /\ clock' = now
  /\ conv[s] = "END"
  /\ Total(epoch, Sessions) < MaxConv
  /\ epoch' = [epoch EXCEPT ![s] = @ + 1]
  /\ user_data' = [user_data EXCEPT
                     ![UserOf(s)] = SetItem(@, "ID", SessionId(ChatOf(s), now))]
  /\ writer' = [writer EXCEPT ![UserOf(s)] = Wrote(@, {"ID"}, <<s, epoch[s] + 1>>)]
  /\ conv' = [conv EXCEPT ![s] = start_returns]
  /\ turn' = [ key |-> s, handler |-> "start", text |-> text,
               extract_calls |-> <<>>, replies |-> <<Greeting>>,
               rows |-> <<>>, saved |-> FALSE ]
  /\ UNCHANGED <<sheet, cancelled>>

\* states[CONTEXT]: a text message runs context_state.
context_state(s, context_message, response, append_ok) ==
  /\ conv[s] = "CONTEXT"
  /\ LET u == UserOf(s)
         extracted_data == extract_fields_from_context(response)
         d == SaveExtracted(user_data[u], extracted_data, context_message)
         missing == missing_fields(d)
     IN  /\ user_data' = [user_data EXCEPT ![u] = d]
         /\ writer' = [writer EXCEPT
                         ![u] = Wrote(@, {"Context", "Name", "Timestamp",
                                          "Contact_Info", "Follow-Up Status"},
                                      Conversation(s))]
         /\ IF missing # <<>>
              THEN /\ append_ok
                   /\ conv' = [conv EXCEPT ![s] = context_state_returns(missing)]
                   /\ sheet' = sheet
                   /\ turn' = [ key |-> s, handler |-> "context_state",
                                text |-> context_message,
                                extract_calls |-> <<ExtractCall(context_message, response)>>,
                                replies |-> <<ContextPrompt(missing)>>,
                                rows |-> <<>>, saved |-> FALSE ]
              ELSE /\ conv' = [conv EXCEPT ![s] = context_state_returns(missing)]
                   /\ sheet' = append_row(sheet, ContextRow(d), append_ok)
                   /\ turn' = [ key |-> s, handler |-> "context_state",
                                text |-> context_message,
                                extract_calls |-> <<ExtractCall(context_message, response)>>,
                                replies |-> <<SaveReply(append_ok)>>,
                                rows |-> <<ContextRow(d)>>, saved |-> append_ok ]
  /\ UNCHANGED <<clock, epoch, cancelled>>

\* states[MISSING_INFO]: a text message runs missing_info_state.
missing_info_state(s, user_reply, append_ok) ==
  /\ conv[s] = "MISSING_INFO"
  /\ LET u == UserOf(s)
         missing == missing_fields(user_data[u])
         d == FillMissing(user_data[u], missing, user_reply)
         still_missing == missing_fields(d)
     IN  /\ user_data' = [user_data EXCEPT ![u] = d]
         /\ writer' = [writer EXCEPT
                         ![u] = Wrote(@, {k \in DOMAIN d : d[k] # Get(user_data[u], k, <<>>)
                                                        \/ k \notin DOMAIN user_data[u]},
                                      Conversation(s))]
         /\ IF still_missing # <<>>
              THEN /\ append_ok
                   /\ conv' = [conv EXCEPT
                                ![s] = missing_info_state_returns(still_missing)]
                   /\ sheet' = sheet
                   /\ turn' = [ key |-> s, handler |-> "missing_info_state",
                                text |-> user_reply, extract_calls |-> <<>>,
                                replies |-> <<NextPrompt(still_missing)>>,
                                rows |-> <<>>, saved |-> FALSE ]
              ELSE /\ conv' = [conv EXCEPT
                                ![s] = missing_info_state_returns(still_missing)]
                   /\ sheet' = append_row(sheet, MissingInfoRow(d), append_ok)
                   /\ turn' = [ key |-> s, handler |-> "missing_info_state",
                                text |-> user_reply, extract_calls |-> <<>>,
                                replies |-> <<SaveReply(append_ok)>>,
                                rows |-> <<MissingInfoRow(d)>>, saved |-> append_ok ]
  /\ UNCHANGED <<clock, epoch, cancelled>>

\* fallbacks: /cancel in a running conversation runs cancel.
cancel(s) ==
  /\ conv[s] \in {"CONTEXT", "MISSING_INFO"}
  /\ conv' = [conv EXCEPT ![s] = cancel_returns]
  /\ turn' = [ key |-> s, handler |-> "cancel", text |-> <<"/cancel">>,
               extract_calls |-> <<>>, replies |-> <<Cancelled>>,
               rows |-> <<>>, saved |-> FALSE ]
  /\ cancelled' = cancelled \cup {Conversation(s)}
  /\ UNCHANGED <<clock, user_data, sheet, epoch, writer>>

\* application.run_polling(): the updates of the keys in S, one at a time.
Dispatch(S) ==
  \/ \E s \in S, text \in Texts, now \in 0..MaxClock : start(s, text, now)
  \/ \E s \in S, text \in Texts, response \in Responses, ok \in BOOLEAN :
       context_state(s, text, response, ok)
  \/ \E s \in S, text \in Texts, ok \in BOOLEAN :
       missing_info_state(s, text, ok)
  \/ \E s \in S : cancel(s)

\* One user in one chat.
OneChat == {<<1, 1>>}

Next == Dispatch(OneChat)

Spec == Init /\ [][Next]_vars

\* The same user in two chats.
NextChats == Dispatch(Sessions)

SpecChats == Init /\ [][NextChats]_vars

(* ------------------------------------------------------ words for claims *)

\* The handler run of the last turn belongs to this key.
TurnKey == turn.key

\* The draft the last turn worked on, after it.
Draft == user_data[UserOf(TurnKey)]

\* The last turn handled a text message in a collecting state.
MessageTurn == turn.handler \in {"context_state", "missing_info_state"}

\* The required fields whose value in d is empty.
Empty(d) == {f \in Required : f \notin DOMAIN d \/ d[f] = <<>>}

\* The required fields a text names.
NamedFields(text) == {f \in Required : In(f, text)}

\* Position of a required field in the order Name, Timestamp, Contact_Info.
Position(f) == CHOOSE i \in 1..Len(RequiredFields) : RequiredFields[i] = f

(* ----------------------------------------------------------------- claims *)

\* C1: a turn hands a record to the sink, and ends the conversation, if and
\* only if every one of Name, Timestamp and Contact_Info is non-empty in the
\* draft when the turn checks it; while one of them is empty nothing is
\* appended and the conversation goes on in MISSING_INFO.
C1_CompleteIffAllFilled ==
  MessageTurn =>
    /\ (turn.rows # <<>>) <=> (Empty(Draft) = {})
    /\ (conv[TurnKey] = "END") <=> (Empty(Draft) = {})
    /\ (conv[TurnKey] = "MISSING_INFO") <=> (Empty(Draft) # {})
    /\ turn.saved => turn.rows # <<>>

\* C1 witness: the dialogue about missing fields ended with a record.
C1_Witness ==
  /\ turn.handler = "missing_info_state"
  /\ Len(turn.rows) = 1
  /\ Empty(Draft) = {}
  /\ conv[TurnKey] = "END"

\* C2: a turn of a conversation never empties a required field that a handler
\* of that same conversation has set to a non-empty value.
C2_MonotonicMerge ==
  [][ \A s \in Sessions, f \in Required :
        LET u == UserOf(s) IN
          ( /\ turn'.key = s
            /\ turn'.handler # "start"
            /\ f \in DOMAIN writer[u]
            /\ writer[u][f] = Conversation(s)
            /\ f \notin Empty(user_data[u]) )
          => f \notin Empty(user_data'[u]) ]_vars

\* C2 witness: a reply that names no missing field was handled while a field
\* set earlier in the conversation was non-empty.
C2_Witness ==
  /\ turn.handler = "missing_info_state"
  /\ conv[TurnKey] = "MISSING_INFO"
  /\ NamedFields(turn.text) \cap Empty(Draft) = {}
  /\ \E f \in Required : f \notin Empty(Draft) /\ Draft[f] # turn.text

\* The last turn sent a prompt for missing fields.
PromptTurn == MessageTurn /\ turn.rows = <<>>

\* C3 as stated: every prompt sent while fields are outstanding names exactly
\* the required fields whose value in the draft is empty in that turn.
C3_PromptNamesEveryMissing ==
  PromptTurn =>
    /\ Len(turn.replies) = 1
    /\ NamedFields(turn.replies[1]) = Empty(Draft)

\* C3 amended: the prompt of context_state names exactly the required fields
\* that are empty in that turn; each prompt of missing_info_state names one
\* field, the first that is empty in the order Name, Timestamp,
\* Contact_Info; no prompt names a filled field.
C3_PromptNamesFirstMissing ==
  PromptTurn =>
    /\ Len(turn.replies) = 1
    /\ Empty(Draft) # {}
    /\ NamedFields(turn.replies[1]) \subseteq Empty(Draft)
    /\ turn.handler = "context_state" =>
         NamedFields(turn.replies[1]) = Empty(Draft)
    /\ turn.handler = "missing_info_state" =>
         \E f \in Empty(Draft) :
           /\ NamedFields(turn.replies[1]) = {f}
           /\ \A g \in Empty(Draft) : Position(f) <= Position(g)

\* C3 witness: a re-prompt was sent while two fields were still empty.
C3_Witness ==
  /\ turn.handler = "missing_info_state"
  /\ PromptTurn
  /\ Cardinality(Empty(Draft)) >= 2

\* The conversations whose handlers assigned the values of the draft d of
\* user u (the six values of a row built from it).
Writers(u) == {writer[u][k] : k \in DOMAIN writer[u]}

\* C4: a cancel in CONTEXT or MISSING_INFO ends the conversation and appends
\* nothing, and no row appended in any later turn holds a value that a
\* handler of a cancelled conversation assigned.
C4_CancelLeavesNoTrace ==
  /\ turn.handler = "cancel" =>
       /\ turn.rows = <<>>
       /\ conv[TurnKey] = "END"
       /\ Conversation(TurnKey) \in cancelled
  /\ turn.saved => Writers(UserOf(TurnKey)) \cap cancelled = {}

\* The extractor call of the last turn failed: client.messages.create raised
\* or returned a response without a usable tool block.
ExtractionFailed(t) ==
  /\ t.extract_calls # <<>>
  /\ t.extract_calls[1].outcome # "tool"

\* C5: a turn whose extractor call fails extracts nothing and still runs to
\* its end: it keeps every value the conversation had assigned before, takes
\* the raw message as Context, sends one prompt that names the three missing
\* fields and leaves the conversation in MISSING_INFO with all three
\* missing, each time it happens.
C5_ExtractionFailureNotFatal ==
  [][ \A s \in Sessions :
        (turn'.key = s /\ ExtractionFailed(turn')) =>
          LET u == UserOf(s) IN
            /\ turn'.extract_calls[1].result = EmptyDict
            /\ \A k \in DOMAIN user_data[u] :
                 writer[u][k] = Conversation(s) =>
                   /\ k \in DOMAIN user_data'[u]
                   /\ user_data'[u][k] = user_data[u][k]
            /\ user_data'[u]["Context"] = turn'.text
            /\ Empty(user_data'[u]) = Required
            /\ conv'[s] = "MISSING_INFO"
            /\ turn'.rows = <<>>
            /\ Len(turn'.replies) = 1
            /\ NamedFields(turn'.replies[1]) = Required ]_vars

\* C5 witness: the extractor call raised in the second conversation of a
\* chat, which was left in MISSING_INFO with the three fields missing.
C5_Witness ==
  /\ ExtractionFailed(turn)
  /\ turn.extract_calls[1].outcome = "raise"
  /\ epoch[TurnKey] = 2
  /\ conv[TurnKey] = "MISSING_INFO"
  /\ Empty(Draft) = Required

\* The last turn passed a row to sheet.append_row and the call raised.
SinkFailed(t) == t.rows # <<>> /\ ~t.saved

C7_RowOfSixInOrder ==
  turn.rows # <<>> =>
    LET row == turn.rows[1]
        u == UserOf(TurnKey)
    IN  /\ Len(turn.rows) = 1
        /\ Len(row) = 6
        /\ row[1] = Draft["ID"]
        /\ row[2] = Draft["Name"]
        /\ row[3] = Draft["Context"]
        /\ row[4] = Draft["Timestamp"]
        /\ row[5] = Draft["Contact_Info"]
        /\ row[6] = <<"Pending">>
        /\ writer[u]["ID"] = Conversation(TurnKey)
        /\ row[1][1] = ChatOf(TurnKey)

\* The key of the extractor's result that feeds a field of the draft.
ExtractKeyOf(f) ==
  CASE f = "Name" -> "name"
    [] f = "Timestamp" -> "timestamp"
    [] f = "Contact_Info" -> "contact_info"
    [] f = "Context" -> "context"

\* The fields for which the last turn yields a non-empty value: in
\* context_state those with a non-empty value in the extractor's result, in
\* missing_info_state those the reply names; and that value.
Yielded(t) ==
  IF t.handler = "context_state"
    THEN {f \in Required :
            /\ ExtractKeyOf(f) \in DOMAIN t.extract_calls[1].result
            /\ t.extract_calls[1].result[ExtractKeyOf(f)] # <<>>}
    ELSE NamedFields(t.text)

YieldedValue(t, f) ==
  IF t.handler = "context_state"
    THEN t.extract_calls[1].result[ExtractKeyOf(f)]
    ELSE t.text

\* C8: after a turn, every field for which the turn yields a non-empty value
\* holds that value, also when it held another non-empty value before.
C8_LastWriteWins ==
  MessageTurn => \A f \in Yielded(turn) : Draft[f] = YieldedValue(turn, f)

\* C9 as stated: the message that starts a conversation is itself run
\* through the extractor and its fields are merged in that turn.
C9_FirstMessageIsContext ==
  turn.handler = "start" =>
    /\ conv[TurnKey] = "CONTEXT"
    /\ Len(turn.extract_calls) = 1
    /\ turn.extract_calls[1].text = turn.text
    /\ {"Context", "Name", "Timestamp", "Contact_Info"} \subseteq DOMAIN Draft

\* C9 amended: the message that starts a conversation assigns the session id,
\* is answered with the greeting and puts the key in CONTEXT; the extractor
\* does not run on it and it assigns no field.  The next message is the
\* context statement: the extractor runs once, on that message's text, and
\* its result is merged in that turn.
C9_SecondMessageIsContext ==
  [][ /\ turn'.handler = "start" =>
           LET u == UserOf(turn'.key) IN
             /\ conv[turn'.key] = "END"
             /\ conv'[turn'.key] = "CONTEXT"
             /\ turn'.replies = <<Greeting>>
             /\ turn'.extract_calls = <<>>
             /\ user_data'[u]["ID"] = <<ChatOf(turn'.key), clock'>>
             /\ \A k \in (DOMAIN user_data'[u]) \ {"ID"} :
                  k \in DOMAIN user_data[u] /\ user_data'[u][k] = user_data[u][k]
      /\ turn'.handler = "context_state" =>
           LET u == UserOf(turn'.key)
               call == turn'.extract_calls[1]
           IN  /\ conv[turn'.key] = "CONTEXT"
               /\ Len(turn'.extract_calls) = 1
               /\ call.text = turn'.text
               /\ \A f \in Required :
                    user_data'[u][f] =
                      IF ExtractKeyOf(f) \in DOMAIN call.result
                        THEN call.result[ExtractKeyOf(f)] ELSE <<>>
               /\ user_data'[u]["Context"] =
                    IF "context" \in DOMAIN call.result
                      THEN call.result["context"] ELSE turn'.text ]_vars

\* C9 witness: the second message of a conversation was handled as the
\* context statement and the name the extractor found is in the draft.
C9_Witness ==
  /\ turn.handler = "context_state"
  /\ turn.extract_calls[1].outcome = "tool"
  /\ "name" \in DOMAIN turn.extract_calls[1].result
  /\ Draft["Name"] = <<"Alice">>
  /\ Draft["Name"] = turn.extract_calls[1].result["name"]

\* C10: every message handled in CONTEXT or MISSING_INFO is run through the
\* extractor, once and on its own text, before the draft is merged, and no
\* field holds the raw text of a reply given in MISSING_INFO.
C10_EveryMessageExtracted ==
  MessageTurn =>
    /\ Len(turn.extract_calls) = 1
    /\ turn.extract_calls[1].text = turn.text
    /\ turn.handler = "missing_info_state" =>
         \A f \in Required : Draft[f] # turn.text

\* The calendar date of the instant `now`.
CalendarDate(now) == <<"date", now>>

\* The Date Normalizer the specification describes: the calendar date a time
\* expression denotes relative to the reference instant, and the reference
\* instant's own date when the expression cannot be parsed.  Of the values
\* a Timestamp takes here only a calendar date can be parsed.
Normalize(expression, reference) ==
  IF Len(expression) = 2 /\ expression[1] = "date"
    THEN expression ELSE CalendarDate(reference)

\* C11: the date of every row handed to the sink is the draft's Timestamp
\* normalized against the time of the turn, the date of that time when the
\* Timestamp cannot be parsed, and never the raw expression.
C11_RecordDateIsNormalized ==
  turn.rows # <<>> =>
    \E reference \in clock..MaxClock :
      turn.rows[1][4] = Normalize(Draft["Timestamp"], reference)

\* The keys context_state assigns, and a draft cut down to them.
MergedKeys == {"Context", "Name", "Timestamp", "Contact_Info", "Follow-Up Status"}

Merged(d) == [k \in MergedKeys |-> d[k]]

\* C12: after a turn in CONTEXT the draft's Name, Timestamp, Contact_Info,
\* Context and status are what the same message text and the same extraction
\* result give on a blank draft, whatever an earlier conversation left behind.
C12_IdempotentReExtraction ==
  turn.handler = "context_state" =>
    Merged(Draft) =
      Merged(SaveExtracted(EmptyDict, turn.extract_calls[1].result, turn.text))

\* C12 witness: an earlier conversation was saved, so it left all three
\* required fields filled, and the context turn of the second conversation,
\* whose extraction returned nothing, leaves all three empty.
C12_Witness ==
  /\ turn.handler = "context_state"
  /\ epoch[TurnKey] = 2
  /\ sheet >= 1
  /\ turn.extract_calls[1].result = EmptyDict
  /\ Empty(Draft) = Required
  /\ Draft["Context"] = turn.text

\* The draft of a session: the user_data its handlers read and write.
DraftOf(s) == user_data[UserOf(s)]

\* C13: a turn handled for one session changes neither the draft (fields and
\* session id) nor the dialogue state of another session that is in a
\* conversation, also when both sessions are chats of the same user.
C13_SessionIsolation ==
  [][ \A s \in Sessions : \A other \in Sessions \ {s} :
        (turn' # turn /\ turn'.key = s /\ conv[other] # "END") =>
          /\ DraftOf(other)' = DraftOf(other)
          /\ conv'[other] = conv[other] ]_vars

\* The dialogue-state changes the state machine allows for one handled turn.
Allowed(handler, from, to) ==
  CASE handler = "start" -> from = "END" /\ to = "CONTEXT"
    [] handler = "context_state" ->
         from = "CONTEXT" /\ to \in {"MISSING_INFO", "END"}
    [] handler = "missing_info_state" ->
         from = "MISSING_INFO" /\ to \in {"MISSING_INFO", "END"}
    [] handler = "cancel" ->
         from \in {"CONTEXT", "MISSING_INFO"} /\ to = "END"
    [] OTHER -> FALSE

\* C14: every step is one handled turn of one session and moves that
\* session along the state machine: no conversation to awaiting context by
\* the starting message; awaiting context to awaiting missing info or ended;
\* awaiting missing info to itself or ended; cancel from either to ended.
\* No session goes from awaiting missing info to awaiting context, an ended
\* session handles nothing but the message that starts a new conversation,
\* and no other session's state changes.
C14_StateTransitions ==
  [][ /\ Allowed(turn'.handler, conv[turn'.key], conv'[turn'.key])
      /\ \A s \in Sessions \ {turn'.key} : conv'[s] = conv[s]
      /\ \A s \in Sessions :
           /\ ~(conv[s] = "MISSING_INFO" /\ conv'[s] = "CONTEXT")
           /\ conv[s] = "END" /\ turn'.key = s =>
                turn'.handler = "start" /\ epoch'[s] = epoch[s] + 1 ]_vars

\* C14 witness: a reply left the session in awaiting missing info, after a
\* conversation of the same session had ended and a new one was started.
C14_Witness ==
  /\ turn.handler = "missing_info_state"
  /\ conv[TurnKey] = "MISSING_INFO"
  /\ epoch[TurnKey] = 2

\* C15: a turn in MISSING_INFO changes only required fields that were empty
\* before it: the session id, the Context, the status 'Pending' and every
\* required field that already had a value are the same after the turn, and
\* the draft gets no new key.
C15_MissingInfoFrame ==
  [][ turn'.handler = "missing_info_state" =>
        LET pre  == user_data[UserOf(turn'.key)]
            post == user_data'[UserOf(turn'.key)]
        IN  /\ DOMAIN post = DOMAIN pre
            /\ \A k \in (DOMAIN pre) \ Empty(pre) : post[k] = pre[k]
            /\ {"ID", "Context", "Follow-Up Status"} \subseteq
                 (DOMAIN pre) \ Empty(pre)
            /\ post["Follow-Up Status"] = <<"Pending">> ]_vars

\* C15 witness: a reply that names a filled field and an empty one was
\* handled; the empty one took the reply, the filled one kept its value.
C15_Witness ==
  /\ turn.handler = "missing_info_state"
  /\ turn.text = <<"Name", "Timestamp">>
  /\ Draft["Name"] = <<"Alice">>
  /\ Draft["Timestamp"] = turn.text

\* The required fields whose value differs between two drafts.
Changed(pre, post) == {f \in Required : post[f] # pre[f]}

\* The first field, in the order Name, Timestamp, Contact_Info, of a
\* non-empty set of required fields.
First(fields) == CHOOSE f \in fields : \A g \in fields : Position(f) <= Position(g)

\* C16 as stated: a reply in MISSING_INFO that is accepted is assigned, as
\* the whole reply text, to exactly one field, the first missing one in the
\* order Name, Timestamp, Contact_Info; no other missing field gets a value.
C16_ReplyFillsFirstMissingOnly ==
  [][ turn'.handler = "missing_info_state" =>
        LET pre  == user_data[UserOf(turn'.key)]
            post == user_data'[UserOf(turn'.key)]
        IN  Changed(pre, post) # {} =>
              /\ Changed(pre, post) = {First(Empty(pre))}
              /\ post[First(Empty(pre))] = turn'.text ]_vars

\* C16 amended: a reply in MISSING_INFO is assigned, as the whole reply text,
\* to every missing field whose name occurs in the reply, whatever its place
\* in the order and however many there are; a missing field the reply does
\* not name and a filled field keep their value.
C16_ReplyFillsEveryNamedMissing ==
  [][ turn'.handler = "missing_info_state" =>
        LET pre  == user_data[UserOf(turn'.key)]
            post == user_data'[UserOf(turn'.key)]
        IN  \A f \in Required :
              post[f] = IF f \in Empty(pre) /\ In(f, turn'.text)
                          THEN turn'.text ELSE pre[f] ]_vars

\* C16 witness: one reply was assigned to two missing fields.
C16_Witness ==
  /\ turn.handler = "missing_info_state"
  /\ Draft["Name"] = turn.text
  /\ Draft["Timestamp"] = turn.text
  /\ Draft["Contact_Info"] # turn.text

\* The sessions that are in a conversation.
Active == {s \in Sessions : conv[s] # "END"}

\* C17: a turn attempts at most one append, only for a session that is in a
\* conversation and only when the turn ends that conversation, never when it
\* leaves the session in MISSING_INFO; a turn without an attempt adds no row;
\* so the sheet never has more rows than conversations have ended.
C17_OneRecordPerConversation ==
  [][ /\ Len(turn'.rows) <= 1
      /\ turn'.rows # <<>> =>
           /\ turn'.handler \in {"context_state", "missing_info_state"}
           /\ conv[turn'.key] \in {"CONTEXT", "MISSING_INFO"}
           /\ conv'[turn'.key] = "END"
           /\ sheet' \in {sheet, sheet + 1}
      /\ turn'.rows = <<>> => sheet' = sheet
      /\ sheet' + Cardinality(Active') <= Total(epoch', Sessions) ]_vars

\* C17 witness: two conversations have ended, each with its one record
\* appended, the second from the missing-info state.
C17_Witness ==
  /\ turn.handler = "missing_info_state"
  /\ turn.rows # <<>>
  /\ epoch[TurnKey] = 2
  /\ sheet = 2

\* A text is a prompt for fields that are missing in d: it opens as one of
\* the two prompts do and the required fields it names are missing, at
\* least one of them.
IsPromptFor(text, d) ==
  /\ text # <<>>
  /\ text[1] \in {"I couldn't find the", "Please provide the"}
  /\ NamedFields(text) # {}
  /\ NamedFields(text) \subseteq Empty(d)

\* C18: every handled message or cancel is answered by exactly one message
\* with text: start by the greeting, cancel by the cancel notice, a turn that
\* attempted the append by the confirmation or the save-failure message, and
\* every other turn by a prompt for missing fields; a reply in MISSING_INFO
\* that filled none of the fields it found missing is answered by the
\* re-prompt and the session stays in MISSING_INFO.
C18_NoSilentTurn ==
  turn.handler # "none" =>
    /\ Len(turn.replies) = 1
    /\ turn.replies[1] # <<>>
    /\ turn.handler = "start" => turn.replies[1] = Greeting
    /\ turn.handler = "cancel" => turn.replies[1] = Cancelled
    /\ (MessageTurn /\ turn.rows # <<>>) => turn.replies[1] \in {Saved, SaveError}
    /\ (MessageTurn /\ turn.rows = <<>>) => IsPromptFor(turn.replies[1], Draft)
    /\ ( /\ turn.handler = "missing_info_state"
         /\ Empty(Draft) # {}
         /\ \A f \in Required : Draft[f] # turn.text ) =>
         /\ turn.rows = <<>>
         /\ conv[TurnKey] = "MISSING_INFO"
         /\ turn.replies[1][1] = "Please provide the"

\* C18 witness: a reply in MISSING_INFO that named no field filled nothing
\* and was answered by the re-prompt.
C18_Witness ==
  /\ turn.handler = "missing_info_state"
  /\ turn.text = <<"Bob">>
  /\ Empty(Draft) # {}
  /\ \A f \in Required : Draft[f] # turn.text
  /\ Len(turn.replies) = 1
  /\ turn.replies[1][1] = "Please provide the"

\* C19: a session leaves MISSING_INFO only by completing or by cancel, and
\* once the user has supplied a value for every missing field it completes:
\* when one required field is missing, the re-prompt has asked for it and the
\* user answers with a value, the turn fills the field, ends the conversation
\* and hands the record to the sink.
C19_SuppliedValueCompletes ==
  [][ turn'.handler = "missing_info_state" =>
        LET s   == turn'.key
            pre == user_data[UserOf(s)]
        IN  /\ conv'[s] \in {"MISSING_INFO", "END"}
            /\ conv'[s] = "END" => turn'.rows # <<>>
            /\ ( /\ Cardinality(Empty(pre)) = 1
                 /\ turn.key = s
                 /\ turn.replies = <<NextPrompt(missing_fields(pre))>>
                 /\ NamedFields(turn'.text) = {} ) =>
                 /\ Empty(user_data'[UserOf(s)]) = {}
                 /\ conv'[s] = "END"
                 /\ turn'.rows # <<>> ]_vars

\* C20: after the context message the draft's Context is the extractor's
\* context value when the result has one and the message text otherwise,
\* also when the extraction failed; no prompt names Context; and a turn that
\* leaves the three required fields filled completes, also with an empty
\* Context.
C20_ContextNeverBlocks ==
  /\ turn.handler = "context_state" =>
       Draft["Context"] =
         IF "context" \in DOMAIN turn.extract_calls[1].result
           THEN turn.extract_calls[1].result["context"] ELSE turn.text
  /\ (turn.handler = "context_state" /\ ExtractionFailed(turn)) =>
       Draft["Context"] = turn.text
  /\ MessageTurn =>
       /\ ~In("Context", turn.replies[1])
       /\ Empty(Draft) = {} => (turn.rows # <<>> /\ conv[TurnKey] = "END")

\* C20 witness: the extractor returned an empty context with the three
\* required fields, and the turn handed the record to the sink.
C20_Witness ==
  /\ turn.handler = "context_state"
  /\ "context" \in DOMAIN turn.extract_calls[1].result
  /\ Draft["Context"] = <<>>
  /\ Empty(Draft) = {}
  /\ turn.rows # <<>>
  /\ conv[TurnKey] = "END"

====
